---------------------------- MODULE Spec2Model ----------------------------
(***************************************************************************)
(* Model of src/index.tsx: the HyperToughWarranty component (screen        *)
(* navigation, the claim form, handleSubmit and its outbound request) and  *)
(* the helper within365Days with the module's runtime tests.               *)
(*                                                                         *)
(* Strings are sequences of one-character strings, so that template        *)
(* literals, join('\n'), Date parsing and toISOString().split('T')[0] are  *)
(* computed character by character.  Instants are integers counted in      *)
(* ticks since 1970-01-01T00:00Z; a day has TicksPerDay ticks (the code    *)
(* counts milliseconds; only the ratio to one day enters its arithmetic).  *)
(***************************************************************************)
EXTENDS Integers, Sequences, FiniteSets, TLC

VARIABLES
    loaded,         \* the module's top-level code (lines 312-330) has run
    failedAsserts,  \* console.assert messages printed by the runtime tests
    now,            \* the wall clock read by new Date() / Date.now()
    step,           \* useState<Step>, line 50
    submitted,      \* useState(false), line 51
    form,           \* useState({...}), lines 52-60
    requests,       \* the fetch calls issued so far, in order, with their fate
    consoleErrors,  \* indices of the requests console.error was called for
    alerts,         \* number of alert() dialogs shown
    invocations     \* number of handleSubmit invocations

vars == <<loaded, failedAsserts, now, step, submitted, form, requests,
          consoleErrors, alerts, invocations>>

---------------------------------------------------------------------------
(* Bounds of the exploration *)

\* ticks per day: the clock's resolution in the model
TicksPerDay == 4
\* the clock advances at most this many ticks past NowStart
MaxTicks == 1
\* handleSubmit is invoked at most this many times in a session
MaxSubmits == 2

---------------------------------------------------------------------------
(* Character strings *)

NL == "\n"
Digits == <<"0", "1", "2", "3", "4", "5", "6", "7", "8", "9">>

IsDigit(c) == \E i \in 1..10 : Digits[i] = c
DigitVal(c) == (CHOOSE i \in 1..10 : Digits[i] = c) - 1

\* Array.prototype.join(sep) on an array of strings
RECURSIVE Join(_, _)
Join(lines, sep) ==
    IF Len(lines) = 0 THEN <<>>
    ELSE IF Len(lines) = 1 THEN lines[1]
    ELSE lines[1] \o sep \o Join(Tail(lines), sep)

\* String.prototype.split(sep) for a one-character separator
RECURSIVE Split(_, _)
Split(s, sep) ==
    IF \A i \in 1..Len(s) : s[i] # sep THEN <<s>>
    ELSE LET k == CHOOSE i \in 1..Len(s) :
                      s[i] = sep /\ \A j \in 1..(i-1) : s[j] # sep
         IN  <<SubSeq(s, 1, k-1)>> \o Split(SubSeq(s, k+1, Len(s)), sep)

\* decimal rendering of n, left-padded with zeros to width w
Pad(n, w) == [i \in 1..w |-> Digits[((n \div (10 ^ (w - i))) % 10) + 1]]

---------------------------------------------------------------------------
(* The proleptic Gregorian calendar behind Date, in UTC *)

IsLeap(y) == (y % 4 = 0 /\ y % 100 # 0) \/ y % 400 = 0

DaysInMonth(y, m) ==
    IF m = 2 THEN (IF IsLeap(y) THEN 29 ELSE 28)
    ELSE IF m \in {4, 6, 9, 11} THEN 30 ELSE 31

\* number of days from 1970-01-01 to y-m-d
DaysFromCivil(y, m, d) ==
    LET yy  == IF m <= 2 THEN y - 1 ELSE y
        era == yy \div 400
        yoe == yy - era * 400
        mp  == IF m > 2 THEN m - 3 ELSE m + 9
        doy == (153 * mp + 2) \div 5 + d - 1
        doe == yoe * 365 + yoe \div 4 - yoe \div 100 + doy
    IN  era * 146097 + doe - 719468

\* the calendar date of day number z (days since 1970-01-01)
CivilFromDays(z) ==
    LET zz  == z + 719468
        era == zz \div 146097
        doe == zz - era * 146097
        yoe == (doe - doe \div 1460 + doe \div 36524 - doe \div 146096) \div 365
        doy == doe - (365 * yoe + yoe \div 4 - yoe \div 100)
        mp  == (5 * doy + 2) \div 153
        d   == doy - (153 * mp + 2) \div 5 + 1
        m   == IF mp < 10 THEN mp + 3 ELSE mp - 9
    IN  [y |-> yoe + era * 400 + (IF m <= 2 THEN 1 ELSE 0), m |-> m, d |-> d]

\* new Date(dateString) for the date-only form YYYY-MM-DD, which is read as
\* midnight UTC of that day; any other string of the model's alphabet gives
\* an Invalid Date, whose getTime() is NaN.
InvalidDate == [valid |-> FALSE, time |-> 0]

ParseDate(s) ==
    IF /\ Len(s) = 10
       /\ s[5] = "-"
       /\ s[8] = "-"
       /\ \A i \in {1, 2, 3, 4, 6, 7, 9, 10} : IsDigit(s[i])
    THEN LET y == 1000 * DigitVal(s[1]) + 100 * DigitVal(s[2])
                  + 10 * DigitVal(s[3]) + DigitVal(s[4])
             m == 10 * DigitVal(s[6]) + DigitVal(s[7])
             d == 10 * DigitVal(s[9]) + DigitVal(s[10])
         IN  IF m \in 1..12 /\ d >= 1 /\ d <= DaysInMonth(y, m)
             THEN [valid |-> TRUE, time |-> DaysFromCivil(y, m, d) * TicksPerDay]
             ELSE InvalidDate
    ELSE InvalidDate

\* date.toISOString(): YYYY-MM-DDTHH:mm:ss.sssZ in UTC.  The time of day is
\* rendered by its tick number within the day (two digits).
ToISOString(t) ==
    LET c == CivilFromDays(t \div TicksPerDay)
    IN  Pad(c.y, 4) \o <<"-">> \o Pad(c.m, 2) \o <<"-">> \o Pad(c.d, 2)
        \o <<"T">> \o Pad(t % TicksPerDay, 2) \o <<"Z">>

\* format = (date) => date.toISOString().split('T')[0]
format(t) == Split(ToISOString(t), "T")[1]

---------------------------------------------------------------------------
(* within365Days, lines 28-35 *)

WindowDays == 365

\* the elapsed time is truncated to whole days before it is compared
within365Days_Truncating(dateString, nowT) ==
    LET d == ParseDate(dateString)
    IN  IF ~d.valid THEN FALSE
        ELSE LET diff == nowT - d.time
                 days == diff \div TicksPerDay
             IN  days >= 0 /\ days <= WindowDays

\* days = diff / (one day) is a fraction; days >= 0 && days <= 365 is
\* compared on diff scaled by the length of a day.
within365Days(dateString, nowT) ==
    LET d == ParseDate(dateString)
    IN  IF ~d.valid THEN FALSE
        ELSE LET diff == nowT - d.time
             IN  diff >= 0 /\ diff <= WindowDays * TicksPerDay

---------------------------------------------------------------------------
(* classNames, lines 40-42.  An argument is a string or one of the falsy    *)
(* values false, undefined, null.                                          *)

Str(chars) == [kind |-> "string", value |-> chars]
Falsy(k) == [kind |-> k, value |-> <<>>]

\* Boolean(x): a string is truthy unless it is empty
Truthy(x) == x.kind = "string" /\ x.value # <<>>

classNames(args) ==
    LET kept == SelectSeq(args, Truthy)
    IN  Join([i \in 1..Len(kept) |-> kept[i].value], <<" ">>)

---------------------------------------------------------------------------
(* Data, lines 12-16 and 52-60 *)

PRODUCTS == <<
    [sku |-> <<"H", "T", "-", "J", "A", "C", "K">>,
     name |-> <<"2", " ", "T", "O", "N", " ", "F", "L", "O", "O", "R", " ", "J", "A", "C", "K">>],
    [sku |-> <<"H", "T", "-", "S", "T", "A", "N", "D">>,
     name |-> <<"2", " ", "T", "O", "N", " ", "J", "A", "C", "K", " ", "S", "T", "A", "N", "D", "S">>],
    [sku |-> <<"H", "T", "-", "C", "R", "E", "E", "P", "E", "R">>,
     name |-> <<"4", "0", "\"", " ", "M", "E", "C", "H", "A", "N", "I", "C", "'", "S",
                " ", "C", "R", "E", "E", "P", "E", "R">>] >>

EmptyForm == [name |-> <<>>, email |-> <<>>, phone |-> <<>>, sku |-> <<>>,
              purchaseDate |-> <<>>, description |-> <<>>, injury |-> FALSE]

Steps == {"home", "troubleshoot", "warranty", "submitted"}

\* the day the session runs on, and its first instant (midnight UTC)
BaseDate == <<"2", "0", "2", "6", "-", "1", "1", "-", "0", "4">>
NowStart == ParseDate(BaseDate).time
OneDay == TicksPerDay

\* what the date picker can deliver: the empty string, or a calendar date
\* (tomorrow, today, 365 and 366 days before today)
DateInputs ==
    {<<>>} \cup {format(NowStart + k * OneDay) : k \in {1, 0, -WindowDays, -(WindowDays + 1)}}

\* the values each input element delivers to handleChange
FieldInputs(field) ==
    CASE field = "name" -> {<<>>, <<"A", "l">>}
      [] field = "email" -> {<<>>, <<"a", "@", "b", ".", "c", "o">>}
      [] field = "phone" -> {<<>>, <<"5", "5", "5">>}
      [] field = "sku" -> {<<>>} \cup {PRODUCTS[i].sku : i \in 1..Len(PRODUCTS)}
      [] field = "purchaseDate" -> DateInputs
      [] field = "description" -> {<<>>, <<"l", "e", "a", "k", "s">>, <<"l", "e", "a", "k", "s", "\n", "o", "i", "l">>}
      [] field = "injury" -> BOOLEAN

FormFields == {"name", "email", "phone", "sku", "purchaseDate", "description", "injury"}

\* the fields edited in the session specification, and the values they take
SessionFields == {"sku", "purchaseDate"}

SessionInputs(field) ==
    IF field = "sku" THEN {<<>>, PRODUCTS[Len(PRODUCTS)].sku}
    ELSE FieldInputs(field)

\* every form the inputs can produce
AllForms ==
    [name : FieldInputs("name"), email : FieldInputs("email"),
     phone : FieldInputs("phone"), sku : FieldInputs("sku"),
     purchaseDate : FieldInputs("purchaseDate"),
     description : FieldInputs("description"), injury : FieldInputs("injury")]

---------------------------------------------------------------------------
(* The ticket payload, lines 81-96 *)

\* the body built with the e-mail and phone lines filled from the wrong fields
BuildPayload_SwappedFields(f) ==
    [subject |-> <<"H", "y", "p", "e", "r", " ", "T", "o", "u", "g", "h", " ", "W", "a", "r", "r", "a", "n", "t", "y", " ", "C", "l", "a", "i", "m", " ", "f", "o", "r", " ">> \o f.sku,
     body |-> Join(<< <<"N", "a", "m", "e", ":", " ">> \o f.name,
                      <<"E", "m", "a", "i", "l", ":", " ">> \o f.phone,
                      <<"P", "h", "o", "n", "e", ":", " ">> \o f.email,
                      <<"S", "K", "U", ":", " ">> \o f.sku,
                      <<"P", "u", "r", "c", "h", "a", "s", "e", " ", "D", "a", "t", "e", ":", " ">> \o f.purchaseDate,
                      <<"D", "e", "s", "c", "r", "i", "p", "t", "i", "o", "n", ":", " ">> \o f.description,
                      <<"P", "e", "r", "s", "o", "n", "a", "l", " ", "I", "n", "j", "u", "r", "y", ":", " ">> \o (IF f.injury THEN <<"Y", "e", "s">> ELSE <<"N", "o">>) >>,
                   <<NL>>)]

\* payload.request.subject and payload.request.comment.body
BuildPayload(f) ==
    [subject |-> <<"H", "y", "p", "e", "r", " ", "T", "o", "u", "g", "h", " ", "W", "a", "r", "r", "a", "n", "t", "y", " ", "C", "l", "a", "i", "m", " ", "f", "o", "r", " ">> \o f.sku,
     body |-> Join(<< <<"N", "a", "m", "e", ":", " ">> \o f.name,
                      <<"E", "m", "a", "i", "l", ":", " ">> \o f.email,
                      <<"P", "h", "o", "n", "e", ":", " ">> \o f.phone,
                      <<"S", "K", "U", ":", " ">> \o f.sku,
                      <<"P", "u", "r", "c", "h", "a", "s", "e", " ", "D", "a", "t", "e", ":", " ">> \o f.purchaseDate,
                      <<"D", "e", "s", "c", "r", "i", "p", "t", "i", "o", "n", ":", " ">> \o f.description,
                      <<"P", "e", "r", "s", "o", "n", "a", "l", " ", "I", "n", "j", "u", "r", "y", ":", " ">> \o (IF f.injury THEN <<"Y", "e", "s">> ELSE <<"N", "o">>) >>,
                   <<NL>>)]

---------------------------------------------------------------------------
(* The session *)

\* the ways a fetch() promise settles: fulfilled with a 2xx response,
\* fulfilled with a non-2xx response, or rejected with a network error
Outcomes == {"ok", "http_error", "network_error"}

Pending(i) == requests[i].outcome = "pending"

\* a settled promise whose continuation (catch/finally) has not run yet;
\* it runs as a microtask, before any later event is handled
AwaitingResume(i) == requests[i].outcome # "pending" /\ ~requests[i].resumed
MicrotaskPending == \E i \in 1..Len(requests) : AwaitingResume(i)

\* lines 184-186: the claim form is rendered
FormVisible == loaded /\ step = "warranty" /\ ~submitted

\* lines 288: the confirmation panel is rendered
ConfirmationVisible == loaded /\ step = "submitted" /\ submitted

Init ==
    /\ loaded = FALSE
    /\ failedAsserts = {}
    /\ now = NowStart
    /\ step = "home"
    /\ submitted = FALSE
    /\ form = EmptyForm
    /\ requests = <<>>
    /\ consoleErrors = <<>>
    /\ alerts = 0
    /\ invocations = 0

\* time passes
Tick ==
    /\ ~MicrotaskPending
    /\ now < NowStart + MaxTicks
    /\ now' = now + 1
    /\ UNCHANGED <<loaded, failedAsserts, step, submitted, form, requests,
                   consoleErrors, alerts, invocations>>

\* lines 313-329: the assertions that fail when the tests run at instant t
TestFailures(t) ==
    LET today      == format(t)
        oneYearAgo == format(t - WindowDays * OneDay)
        older      == format(t - (WindowDays + 1) * OneDay)
        future     == format(t + OneDay)
        skuSet     == {PRODUCTS[i].sku : i \in 1..Len(PRODUCTS)}
        Failed(message, passed) == IF passed THEN {} ELSE {message}
    IN  Failed("within365Days should accept today",
               within365Days(today, t) = TRUE)
        \cup Failed("within365Days should accept exactly 365 days ago",
               within365Days(oneYearAgo, t) = TRUE)
        \cup Failed("within365Days should reject dates older than 365 days",
               within365Days(older, t) = FALSE)
        \cup Failed("within365Days should reject future dates",
               within365Days(future, t) = FALSE)
        \cup Failed("classNames should filter out falsy values",
               classNames(<<Str(<<"a">>), Falsy("false"), Str(<<"b">>),
                            Falsy("undefined"), Str(<<>>), Str(<<"c">>)>>)
                   = <<"a", " ", "b", " ", "c">>)
        \cup Failed("classNames should return an empty string when all inputs are falsy",
               classNames(<<Falsy("false"), Falsy("undefined"), Falsy("null")>>)
                   = <<>>)
        \cup Failed("Product SKUs should be unique",
               Cardinality(skuSet) = Len(PRODUCTS))

\* lines 312-330: the runtime tests run once, when the module is loaded
RuntimeTests ==
    /\ ~loaded
    /\ failedAsserts' = TestFailures(now)
    /\ loaded' = TRUE
    /\ UNCHANGED <<now, step, submitted, form, requests, consoleErrors,
                   alerts, invocations>>

\* lines 63-71: an input element of the visible form reports a new value
handleChange(field, value) ==
    /\ FormVisible
    /\ ~MicrotaskPending
    /\ form' = [form EXCEPT ![field] = value]
    /\ UNCHANGED <<loaded, failedAsserts, now, step, submitted, requests,
                   consoleErrors, alerts, invocations>>

\* line 135: a product card's "Warranty & Claim" button
WarrantyAndClaim(p) ==
    /\ loaded
    /\ ~MicrotaskPending
    /\ p \in 1..Len(PRODUCTS)
    /\ step' = "warranty"
    /\ UNCHANGED <<loaded, failedAsserts, now, submitted, form, requests,
                   consoleErrors, alerts, invocations>>

\* line 154: "More Safety Tips"
MoreSafetyTips ==
    /\ loaded
    /\ ~MicrotaskPending
    /\ step' = "troubleshoot"
    /\ UNCHANGED <<loaded, failedAsserts, now, submitted, form, requests,
                   consoleErrors, alerts, invocations>>

\* line 160: "Start Warranty Claim"
StartWarrantyClaim ==
    /\ loaded
    /\ ~MicrotaskPending
    /\ step' = "warranty"
    /\ UNCHANGED <<loaded, failedAsserts, now, submitted, form, requests,
                   consoleErrors, alerts, invocations>>

\* line 177: "Back" of the troubleshooting guide
TroubleshootBack ==
    /\ loaded
    /\ ~MicrotaskPending
    /\ step = "troubleshoot"
    /\ step' = "home"
    /\ UNCHANGED <<loaded, failedAsserts, now, submitted, form, requests,
                   consoleErrors, alerts, invocations>>

\* line 274: "Back" of the claim form
FormBack ==
    /\ FormVisible
    /\ ~MicrotaskPending
    /\ step' = "home"
    /\ UNCHANGED <<loaded, failedAsserts, now, submitted, form, requests,
                   consoleErrors, alerts, invocations>>

\* "Back to Home" also clears the submitted flag
BackToHome_ResettingSubmitted ==
    /\ ConfirmationVisible
    /\ ~MicrotaskPending
    /\ step' = "home"
    /\ submitted' = FALSE
    /\ UNCHANGED <<loaded, failedAsserts, now, form, requests,
                   consoleErrors, alerts, invocations>>

\* line 298: "Back to Home" of the confirmation panel
BackToHome ==
    /\ ConfirmationVisible
    /\ ~MicrotaskPending
    /\ step' = "home"
    /\ UNCHANGED <<loaded, failedAsserts, now, submitted, form, requests,
                   consoleErrors, alerts, invocations>>

NewRequest(f) == [payload |-> BuildPayload(f), outcome |-> "pending", resumed |-> FALSE]

\* the alert is shown but the handler does not return
handleSubmit_NoReturn ==
    /\ FormVisible
    /\ ~MicrotaskPending
    /\ invocations < MaxSubmits
    /\ invocations' = invocations + 1
    /\ alerts' = IF within365Days(form.purchaseDate, now) THEN alerts ELSE alerts + 1
    /\ requests' = Append(requests, NewRequest(form))
    /\ UNCHANGED <<loaded, failedAsserts, now, step, submitted, form, consoleErrors>>

\* lines 75-106 and 190-193: the form's submit event runs handleSubmit up
\* to its await.  The event is taken to fire whatever the fields hold: the
\* required attributes are enforced by the browser, not by the handler.
handleSubmit ==
    /\ FormVisible
    /\ ~MicrotaskPending
    /\ invocations < MaxSubmits
    /\ invocations' = invocations + 1
    /\ IF ~within365Days(form.purchaseDate, now)
       THEN /\ alerts' = alerts + 1
            /\ UNCHANGED requests
       ELSE /\ requests' = Append(requests, NewRequest(form))
            /\ UNCHANGED alerts
    /\ UNCHANGED <<loaded, failedAsserts, now, step, submitted, form, consoleErrors>>

\* line 99: the network settles the promise of request i
FetchSettles(i, outcome) ==
    /\ ~MicrotaskPending
    /\ i \in 1..Len(requests)
    /\ Pending(i)
    /\ outcome \in Outcomes
    /\ requests' = [requests EXCEPT ![i].outcome = outcome]
    /\ UNCHANGED <<loaded, failedAsserts, now, step, submitted, form,
                   consoleErrors, alerts, invocations>>

\* the state is set after the await inside try, so a rejection skips it
ResumeAfterAwait_SetInTry(i) ==
    /\ i \in 1..Len(requests)
    /\ AwaitingResume(i)
    /\ requests' = [requests EXCEPT ![i].resumed = TRUE]
    /\ IF requests[i].outcome = "network_error"
       THEN /\ consoleErrors' = Append(consoleErrors, i)
            /\ UNCHANGED <<submitted, step>>
       ELSE /\ submitted' = TRUE
            /\ step' = "submitted"
            /\ UNCHANGED consoleErrors
    /\ UNCHANGED <<loaded, failedAsserts, now, form, alerts, invocations>>

\* a failed request is sent again from the catch block
ResumeAfterAwait_Retrying(i) ==
    /\ i \in 1..Len(requests)
    /\ AwaitingResume(i)
    /\ IF requests[i].outcome = "network_error"
       THEN /\ consoleErrors' = Append(consoleErrors, i)
            /\ requests' = Append([requests EXCEPT ![i].resumed = TRUE],
                                  [requests[i] EXCEPT !.outcome = "pending"])
       ELSE /\ requests' = [requests EXCEPT ![i].resumed = TRUE]
            /\ UNCHANGED consoleErrors
    /\ submitted' = TRUE
    /\ step' = "submitted"
    /\ UNCHANGED <<loaded, failedAsserts, now, form, alerts, invocations>>

\* lines 107-112: handleSubmit resumes after its await: catch, then finally
ResumeAfterAwait(i) ==
    /\ i \in 1..Len(requests)
    /\ AwaitingResume(i)
    /\ requests' = [requests EXCEPT ![i].resumed = TRUE]
    /\ consoleErrors' = IF requests[i].outcome = "network_error"
                        THEN Append(consoleErrors, i)
                        ELSE consoleErrors
    /\ submitted' = TRUE
    /\ step' = "submitted"
    /\ UNCHANGED <<loaded, failedAsserts, now, form, alerts, invocations>>

Next ==
    \/ Tick
    \/ RuntimeTests
    \/ \E field \in SessionFields : \E value \in SessionInputs(field) :
           handleChange(field, value)
    \/ \E p \in 1..Len(PRODUCTS) : WarrantyAndClaim(p)
    \/ MoreSafetyTips
    \/ StartWarrantyClaim
    \/ TroubleshootBack
    \/ FormBack
    \/ BackToHome
    \/ handleSubmit
    \/ \E i \in 1..Len(requests) : \E outcome \in Outcomes : FetchSettles(i, outcome)
    \/ \E i \in 1..Len(requests) : ResumeAfterAwait(i)

Spec == Init /\ [][Next]_vars

\* the submissions of one filled form: no editing, no navigation
PayloadInit ==
    /\ loaded = TRUE
    /\ now \in NowStart..(NowStart + MaxTicks)
    /\ \E t \in NowStart..now : failedAsserts = TestFailures(t)
    /\ step = "warranty"
    /\ submitted = FALSE
    /\ form \in AllForms
    /\ requests = <<>>
    /\ consoleErrors = <<>>
    /\ alerts = 0
    /\ invocations = 0

PayloadNext ==
    \/ handleSubmit
    \/ \E i \in 1..Len(requests) : \E outcome \in Outcomes : FetchSettles(i, outcome)
    \/ \E i \in 1..Len(requests) : ResumeAfterAwait(i)

PayloadSpec == PayloadInit /\ [][PayloadNext]_vars

\* the continuation of an await runs once its promise has settled; nothing
\* obliges the network to settle it, and nothing obliges the user to act
FairSpec == Spec /\ WF_vars(\E i \in 1..Len(requests) : ResumeAfterAwait(i))

---------------------------------------------------------------------------
(* Vocabulary of the properties *)

\* a purchase date that is unparseable, in the future, or more than 365 days old
NotEligible(s, t) ==
    LET p == ParseDate(s)
    IN  \/ ~p.valid
        \/ p.time > t
        \/ t - p.time > WindowDays * OneDay

\* this step is an invocation of the submit handler
SubmitInvoked == invocations' = invocations + 1

\* this step is the completion of request i
Completes(i) == AwaitingResume(i) /\ requests'[i].resumed

InFlight == {i \in 1..Len(requests) : Pending(i)}

Payloads(reqs) == [i \in 1..Len(reqs) |-> reqs[i].payload]

\* the seven entries of a ticket body, in order
Entries(f) ==
    << <<"N", "a", "m", "e", ":", " ">> \o f.name,
       <<"E", "m", "a", "i", "l", ":", " ">> \o f.email,
       <<"P", "h", "o", "n", "e", ":", " ">> \o f.phone,
       <<"S", "K", "U", ":", " ">> \o f.sku,
       <<"P", "u", "r", "c", "h", "a", "s", "e", " ", "D", "a", "t", "e", ":", " ">> \o f.purchaseDate,
       <<"D", "e", "s", "c", "r", "i", "p", "t", "i", "o", "n", ":", " ">> \o f.description,
       <<"P", "e", "r", "s", "o", "n", "a", "l", " ", "I", "n", "j", "u", "r", "y", ":", " ">> \o (IF f.injury THEN <<"Y", "e", "s">> ELSE <<"N", "o">>) >>

SingleLine(s) == \A i \in 1..Len(s) : s[i] # NL

\* the date strings the eligibility check is examined on
DateStrings ==
    DateInputs
    \cup {format(NowStart - k * OneDay) : k \in {1, 2, WindowDays - 1, WindowDays + 2}}
    \cup {<<"n", "o", "t", "-", "a", "-", "d", "a", "t", "e">>}

---------------------------------------------------------------------------
(* C1 *)

\* C1: when the submit handler is invoked with a purchase date that is not
\* eligible, no request is issued, the rejection is reported (the alert),
\* and step stays 'warranty', submitted stays false and the form keeps
\* every value, so the form is still displayed and editable.
C1_IneligibleSubmitRejected ==
    [][(SubmitInvoked /\ NotEligible(form.purchaseDate, now))
         => /\ requests' = requests
            /\ alerts' = alerts + 1
            /\ step = "warranty" /\ step' = "warranty"
            /\ ~submitted /\ ~submitted'
            /\ form' = form
            /\ FormVisible']_vars

C1_Witness ==
    /\ alerts = MaxSubmits
    /\ requests = <<>>
    /\ FormVisible
    /\ form.sku # <<>>
    /\ ParseDate(form.purchaseDate).valid
    /\ NotEligible(form.purchaseDate, now)

(* C2 *)

\* C2: when the request of an eligible submission finishes, with a success
\* response, a non-2xx response or a transport error alike, the session is
\* in the Submitted state: submitted = true and step = 'submitted'.
C2_SubmittedHoweverTheRequestEnds ==
    [][\A i \in 1..Len(requests) :
          Completes(i) => (submitted' /\ step' = "submitted")]_vars

C2_Witness ==
    /\ submitted
    /\ step = "submitted"
    /\ \E i \in 1..Len(requests) :
          requests[i].resumed /\ requests[i].outcome = "network_error"
    /\ \E i \in 1..Len(requests) :
          requests[i].resumed /\ requests[i].outcome = "http_error"

(* C3 *)

C4_CalendarDateAcceptedIffWithin365 ==
    \A k \in (-2)..(WindowDays + 2) :
        within365Days(format(now - k * OneDay), now) <=> (0 <= k /\ k <= WindowDays)

(* C5 *)

\* C5, as stated: the subject is "Warranty Claim for " followed by the sku
\* and the body is exactly seven lines, Name to Personal Injury.
C5_SubjectAndSevenLines ==
    [][Len(requests') > Len(requests)
         => LET payload == requests'[Len(requests')].payload
            IN  /\ payload.subject = <<"W", "a", "r", "r", "a", "n", "t", "y", " ", "C", "l", "a", "i", "m", " ", "f", "o", "r", " ">> \o form.sku
                /\ Split(payload.body, NL) = Entries(form)]_vars

\* C5, amended: the subject is "Hyper Tough Warranty Claim for " followed
\* by the sku; the body is the seven entries Name, Email, Phone, SKU,
\* Purchase Date, Description, Personal Injury joined by newlines, injury
\* rendered Yes/No, and it has exactly these seven lines whenever no field
\* value contains a line break.
C5_HyperToughSubjectAndSevenEntries ==
    [][Len(requests') > Len(requests)
         => LET payload == requests'[Len(requests')].payload
                fields  == <<form.name, form.email, form.phone, form.sku,
                             form.purchaseDate, form.description>>
            IN  /\ payload.subject = <<"H", "y", "p", "e", "r", " ", "T", "o", "u", "g", "h", " ", "W", "a", "r", "r", "a", "n", "t", "y", " ", "C", "l", "a", "i", "m", " ", "f", "o", "r", " ">> \o form.sku
                /\ Len(Entries(form)) = 7
                /\ payload.body = Join(Entries(form), <<NL>>)
                /\ (\A j \in 1..Len(fields) : SingleLine(fields[j]))
                      => Split(payload.body, NL) = Entries(form)]_vars

C5_Witness ==
    /\ form.sku = <<"H", "T", "-", "C", "R", "E", "E", "P", "E", "R">>
    /\ form.injury
    /\ form.name # <<>> /\ form.email # <<>> /\ form.phone # <<>>
    /\ ~SingleLine(form.description)
    /\ \E i \in 1..Len(requests) :
          /\ requests[i].payload.subject = <<"H", "y", "p", "e", "r", " ", "T", "o", "u", "g", "h", " ", "W", "a", "r", "r", "a", "n", "t", "y", " ", "C", "l", "a", "i", "m", " ", "f", "o", "r", " ", "H", "T", "-", "C", "R", "E", "E", "P", "E", "R">>
          /\ Len(Split(requests[i].payload.body, NL)) = 8
          /\ Split(requests[i].payload.body, NL)[8] = <<"P", "e", "r", "s", "o", "n", "a", "l", " ", "I", "n", "j", "u", "r", "y", ":", " ", "Y", "e", "s">>

(* C6 *)

\* C6: an invocation of the submit handler with an eligible date issues
\* exactly one request, carrying the payload built from the form of that
\* invocation; no other step issues or alters a request (a failed request
\* is not sent again), so the requests issued are as many as the
\* invocations that passed the eligibility check.
C6_OneRequestPerEligibleSubmit ==
    [][/\ (SubmitInvoked /\ ~NotEligible(form.purchaseDate, now))
            => Payloads(requests') = Append(Payloads(requests), BuildPayload(form))
       /\ ~(SubmitInvoked /\ ~NotEligible(form.purchaseDate, now))
            => Payloads(requests') = Payloads(requests)
       /\ Len(requests') = invocations' - alerts']_vars

C6_Witness ==
    /\ invocations = 2
    /\ alerts = 1
    /\ Len(requests) = 1
    /\ requests[1].resumed
    /\ requests[1].outcome = "network_error"

(* C7 *)

\* C7: every request that ended in a transport error or a non-2xx response
\* has a log entry.
C7_EveryFailureLogged ==
    \A i \in 1..Len(requests) :
        (requests[i].resumed /\ requests[i].outcome \in {"http_error", "network_error"})
            => \E j \in 1..Len(consoleErrors) : consoleErrors[j] = i

(* C8 *)

\* C8: once a request has been issued, the session eventually reaches the
\* Submitted state, also when the request never completes.
C8_SubmittedWithoutCompletion ==
    (InFlight # {}) ~> (submitted /\ step = "submitted")

(* C9 *)

\* C9: once the claim is submitted, no event makes the claim form visible
\* again and no further submission of it happens: submitted stays true, the
\* form is not rendered, and the submit handler is not invoked.
C9_SubmittedFormNeverShownAgain ==
    [][submitted => (submitted' /\ ~FormVisible' /\ ~SubmitInvoked
                     /\ Len(requests') = Len(requests))]_vars

\* after the confirmation the user has navigated back to the warranty
\* screen, with the submitted values still held and a submit to spare
C9_Witness ==
    /\ submitted
    /\ step = "warranty"
    /\ form.purchaseDate # <<>>
    /\ form.sku # <<>>
    /\ invocations < MaxSubmits
    /\ \A i \in 1..Len(requests) : requests[i].resumed

(* C10 *)

\* C10: at most one outbound request is in flight in any state.
C10_AtMostOneInFlight == Cardinality(InFlight) <= 1

=============================================================================
